---- MODULE Spec2Model ----
(***************************************************************************)
(* Model of the Coylendar season builder (astro.js, calendarDate.js,       *)
(* app.js).                                                                *)
(*                                                                         *)
(* Number representation.                                                  *)
(*   - A JS Date is its getTime() value in whole minutes since the Unix    *)
(*     epoch.  Every consumer in astro.js reads a Date through             *)
(*     getFullYear/getMonth/getDate/getHours/getMinutes only, so seconds   *)
(*     and milliseconds never influence a result; 86400000 ms is 1440.     *)
(*   - Angles are fixed point, one unit = 1/10000 degree.  TPI (2*pi       *)
(*     radians) and 360 degrees are both 3600000 units.                    *)
(*   - Math.sin/Math.cos are a 1-degree table with linear interpolation,   *)
(*     result scaled by 10000.                                             *)
(*   - Grid coordinates are in sixths of a pinch unit (0.5 = 3, 1/6 = 1,   *)
(*     19/6 = 19).                                                         *)
(*   - Bisection fractions are in units of 2^-21 day.                      *)
(*                                                                         *)
(* A function of the source whose local variables are used several times   *)
(* is written as a chain of operators, each taking the values computed so  *)
(* far as parameters (julian, sunPosition, moonPosition, the CalendarDate  *)
(* constructor).                                                           *)
(***************************************************************************)
EXTENDS Integers, Sequences, FiniteSets, TLC

\* ------------------------------------------------------------------------
\* Arithmetic helpers (JS Math.trunc, Math.sign, Math.abs, %, Math.min/max)
\* ------------------------------------------------------------------------
\* NaN, the value of an Invalid Date and of arithmetic on it (no angle, date
\* or fraction of the model is this low)
NaN == -999999999

Abs(x) == IF x < 0 THEN -x ELSE x

Sgn(x) == IF x > 0 THEN 1 ELSE IF x < 0 THEN -1 ELSE 0

\* Math.trunc(a / b) for b > 0
Trunc(a, b) ==
  IF a = NaN THEN NaN ELSE IF a >= 0 THEN a \div b ELSE -((-a) \div b)

\* JS remainder a % b (sign of the dividend) for b > 0
Rem(a, b) == IF a = NaN THEN NaN ELSE a - b * Trunc(a, b)

\* a * k
Times(a, k) == IF a = NaN THEN NaN ELSE a * k

\* a === b: false when either side is NaN
StrictEqual(a, b) == a # NaN /\ b # NaN /\ a = b

\* new Date(t.getTime() + ms)
addMs(t, ms) == IF t = NaN THEN NaN ELSE t + ms

Min(a, b) == IF a < b THEN a ELSE b

Max(a, b) == IF a > b THEN a ELSE b

\* the idiom "if (x < 0) x += 360" (also "if (a < 0) a = TPI + a")
AddTurnIfNegative(a) == IF a < 0 THEN 3600000 + a ELSE a

\* the idiom "i = Math.trunc(l / 360); l = l - i * 360"
DropWholeTurns(l) == l - Trunc(l, 3600000) * 3600000

\* ------------------------------------------------------------------------
\* Program constants
\* ------------------------------------------------------------------------
DAY_MS == 1440            \* 86400000 ms, in minutes

TPI == 3600000            \* Math.PI * 2.0, in angle units

DEG360 == 3600000         \* 360 degrees, in angle units

SMALL_FLOAT == 2          \* 1e-12 rad is below the fixed-point resolution: two units

WALK_CAP == 200           \* iteration cap of both season walks

BISECT_ITER == 20         \* iterations of both bisections

\* days from the epoch to the last Date (8.64e15 ms)
MAX_DAY == 100000000

FRAC_ONE == 2097152       \* the fraction 1.0 in units of 2^-21

\* ------------------------------------------------------------------------
\* Bounds of the model
\* ------------------------------------------------------------------------
\* number of seasons built one after the other in one behaviour
MaxLoads == 4

\* number of instants a probe run classifies after its first
MaxProbes == 48

\* number of loadSeason calls a run of the user interface starts (timers of
\* clicks already made apart)
MaxUiLoads == 3

\* number of calls of handleTap in a run with timed clicks
MaxTaps == 2

\* number of events (resize, mouse, split-days box) a run of the redraw handles
MaxEvents == 3

\* binary digits of the significand of a number in the runs of Astro.range
PREC == 10

\* number of angles a run of Astro.range normalises after its first
MaxAngles == 40

\* ------------------------------------------------------------------------
\* Host platform: the proleptic Gregorian calendar behind JS Date
\* ------------------------------------------------------------------------
DaysFromYoe(era, yoe, doy) ==
  era * 146097 + yoe * 365 + yoe \div 4 - yoe \div 100 + doy - 719468

DaysFromEra(yy, mp, d) ==
  DaysFromYoe(yy \div 400, yy % 400, (153 * mp + 2) \div 5 + d - 1)

\* day number (days since 1970-01-01) of civil y-m-d, m in 1..12; d may lie
\* outside the month, as in new Date(y, m, d + 1)
DaysFromCivil(y, m, d) ==
  DaysFromEra(IF m <= 2 THEN y - 1 ELSE y, IF m > 2 THEN m - 3 ELSE m + 9, d)

CivilRecord(y0, m, d) ==
  [year |-> y0 + (IF m <= 2 THEN 1 ELSE 0), month |-> m, day |-> d]

CivilFromMp(y0, doy, mp) ==
  CivilRecord(y0, IF mp < 10 THEN mp + 3 ELSE mp - 9,
              doy - (153 * mp + 2) \div 5 + 1)

CivilFromDoy(y0, doy) == CivilFromMp(y0, doy, (5 * doy + 2) \div 153)

CivilFromYoe(era, doe, yoe) ==
  CivilFromDoy(yoe + era * 400, doe - (365 * yoe + yoe \div 4 - yoe \div 100))

CivilFromDoe(era, doe) ==
  CivilFromYoe(era, doe,
    (doe - doe \div 1460 + doe \div 36524 - doe \div 146096) \div 365)

\* civil fields of a day number
CivilFromDays(z) ==
  CivilFromDoe((z + 719468) \div 146097, (z + 719468) % 146097)

\* ------------------------------------------------------------------------
\* State
\* ------------------------------------------------------------------------
VARIABLES
  tz,              \* host time zone: [std, on, off] (see getTimezoneOffset)
  pc,              \* position of the season load: "idle", "find", "build", "done"
  loads,           \* number of loadSeason calls started so far
  targetDate,      \* app.js targetDate
  d,               \* findFirstInSeason: loop variable d
  i,               \* loop counter of the running walk
  targetSeason,    \* targetSeason of the running walk
  first,           \* value returned by findFirstInSeason
  current,         \* constructSeason: current
  seasonCalendar,  \* app.js seasonCalendar
  bounds,          \* app.js bounds
  built,           \* seasons of the layouts completed by earlier loads, in order
  probe,           \* an instant and the values the ephemeris functions give it
  ui,              \* the last gesture: [tap, from, timer] (see handleTap)
  clicks,          \* the clock, lastClickTime and the calls of handleTap so far
  screen           \* canvas, view transform, drag and redraw state of app.js

vars == <<tz, pc, loads, targetDate, d, i, targetSeason, first, current,
          seasonCalendar, bounds, built, probe, ui, clicks, screen>>

\* ------------------------------------------------------------------------
\* Host platform: the UTC-offset function and the local fields of a Date
\* ------------------------------------------------------------------------
\* Date.prototype.getTimezoneOffset, minutes west of UTC.  The zone is std
\* minutes west in winter; clocks go forward one hour at 02:00 local on civil
\* day tz.on (a 23-hour day) and back one hour at 02:00 local on civil day
\* tz.off (a 25-hour day).  on = off means the zone has no DST.
getTimezoneOffset(t) ==
  IF IF tz.on <= tz.off
     THEN t >= tz.on * 1440 + 120 + tz.std /\ t < tz.off * 1440 + 60 + tz.std
     ELSE t < tz.off * 1440 + 60 + tz.std \/ t >= tz.on * 1440 + 120 + tz.std
  THEN tz.std - 60
  ELSE tz.std

\* local wall-clock minutes of Date t
LocalMinutes(t) == t - getTimezoneOffset(t)

\* civil day number of Date t
CivilDay(t) == LocalMinutes(t) \div 1440

getFullYear(t) == CivilFromDays(CivilDay(t)).year

\* 0-based, as in JS
getMonth(t) == CivilFromDays(CivilDay(t)).month - 1

getDate(t) == CivilFromDays(CivilDay(t)).day

getHours(t) == (LocalMinutes(t) % 1440) \div 60

getMinutes(t) == LocalMinutes(t) % 60

\* the Date whose local wall clock reads L, t1 being the guess made with the
\* offset in force around L
LocalToDate(L, t1) ==
  IF getTimezoneOffset(t1) = t1 - L THEN t1 ELSE L + getTimezoneOffset(t1)

\* new Date(year, month, day): local midnight of that civil day (month 0-based)
\* the Date whose local wall clock reads minute m of civil day number n; a
\* time value beyond 100 000 000 days from the epoch is an Invalid Date
DateOfLocal(n, m) ==
  IF n > MAX_DAY \/ n < -MAX_DAY THEN NaN
  ELSE LocalToDate(n * 1440 + m,
                   n * 1440 + m + getTimezoneOffset(n * 1440 + m + tz.std))

\* new Date(year, month, day): local midnight of that civil day (month 0-based)
NewDate(year, month, day) == DateOfLocal(DaysFromCivil(year, month + 1, day), 0)

\* new Date(t.getFullYear(), t.getMonth(), t.getDate()): local midnight of
\* the civil day of Date t
midnightOf(t) ==
  IF t = NaN THEN NaN ELSE NewDate(getFullYear(t), getMonth(t), getDate(t))

\* d.setMonth(month) on a copy of Date t: month may lie outside 0..11, the
\* day of the month and the time of day are kept
setMonth(t, month) ==
  IF t = NaN THEN NaN
  ELSE DateOfLocal(DaysFromCivil(getFullYear(t) + month \div 12,
                                 (month % 12) + 1, getDate(t)),
                   LocalMinutes(t) % 1440)

\* ------------------------------------------------------------------------
\* Math.sin / Math.cos in fixed point
\* ------------------------------------------------------------------------
\* 10000 * sin(k degrees) for k = 0 .. 90 (the last entry repeats 90 degrees)
SinTable ==
  <<0, 175, 349, 523, 698, 872, 1045, 1219, 1392, 1564, 1736, 1908, 2079,
    2250, 2419, 2588, 2756, 2924, 3090, 3256, 3420, 3584, 3746, 3907, 4067,
    4226, 4384, 4540, 4695, 4848, 5000, 5150, 5299, 5446, 5592, 5736, 5878,
    6018, 6157, 6293, 6428, 6561, 6691, 6820, 6947, 7071, 7193, 7314, 7431,
    7547, 7660, 7771, 7880, 7986, 8090, 8192, 8290, 8387, 8480, 8572, 8660,
    8746, 8829, 8910, 8988, 9063, 9135, 9205, 9272, 9336, 9397, 9455, 9511,
    9563, 9613, 9659, 9703, 9744, 9781, 9816, 9848, 9877, 9903, 9925, 9945,
    9962, 9976, 9986, 9994, 9998, 10000, 10000>>

\* linear interpolation in table T between entries k and k + 1 (0-based)
Interpolate(T, k, f) == T[k + 1] + ((T[k + 2] - T[k + 1]) * f) \div 10000

\* sine of x in 0 .. 90 degrees (0 .. 900000 units), times 10000
SinQuadrant(x) == Interpolate(SinTable, x \div 10000, x % 10000)

\* the angle in 0 .. 90 degrees with the same sine, up to sign, as a in [0, 360)
SinFold(a) ==
  IF a <= 900000 THEN a
  ELSE IF a <= 1800000 THEN 1800000 - a
  ELSE IF a <= 2700000 THEN a - 1800000
  ELSE 3600000 - a

SinSign(a) == IF a <= 1800000 THEN 1 ELSE -1

\* Math.sin of an angle in units, times 10000
Sin(x) == SinSign(x % 3600000) * SinQuadrant(SinFold(x % 3600000))

\* Math.cos of an angle in units, times 10000
Cos(x) == Sin(x + 900000)

\* c0 + rate * (m / 1440) where rate = rateInt + rateMilli / 1000 units per
\* day and m is a number of minutes
Linear(c0, rateInt, rateMilli, m) ==
  c0 + rateInt * (m \div 1440) + (rateMilli * (m \div 1440)) \div 1000
     + (rateInt * (m % 1440)) \div 1440

\* ------------------------------------------------------------------------
\* astro.js
\* ------------------------------------------------------------------------
toUtcMinutes(date) == getTimezoneOffset(date)

\* lines 26-32 of epoch2000Date: the J2000 offset in minutes (days * 1440)
epoch2000(year, month, day, hour, minute, utcMinutes) ==
  (367 * year - Trunc(7 * (year + Trunc(month + 9, 12)), 4)
     + Trunc(275 * month, 9) + day - 730531) * 1440
  - 720 + hour * 60 + minute + utcMinutes

\* Astro.epoch2000Date
epoch2000Date(date) ==
  epoch2000(getFullYear(date), getMonth(date) + 1, getDate(date),
            getHours(date), getMinutes(date), toUtcMinutes(date))

\* Astro.range: normalise an angle to [0, TPI)
range(x) == AddTurnIfNegative(x - Sgn(x) * (Abs(x) \div TPI) * TPI)

\* ------------------------------------------------------------------------
\* Astro.range in the binary floating point of JS numbers
\* ------------------------------------------------------------------------
\* A JS number is m * 2^e with a significand of PREC bits (53 in JS):
\* [m |-> m, e |-> e] with m = 0, or 2^(PREC-1) <= |m| < 2^PREC.  Every
\* operation returns the representable number nearest to the exact result,
\* ties to the even significand.
RECURSIVE Pow2(_)
Pow2(n) == IF n = 0 THEN 1 ELSE 2 * Pow2(n - 1)

\* number of binary digits of a >= 0
RECURSIVE BitLen(_)
BitLen(a) == IF a = 0 THEN 0 ELSE 1 + BitLen(a \div 2)

\* round to nearest, ties to even: q is the kept part, r the dropped part
RoundUp(q, r, half) == r > half \/ (r = half /\ q % 2 = 1)

\* the rounded significand q may have reached 2^PREC
Carry(sg, q, e) ==
  IF q = Pow2(PREC) THEN [m |-> sg * Pow2(PREC - 1), e |-> e + 1]
  ELSE [m |-> sg * q, e |-> e]

\* drop the s > 0 low digits of a
RoundBits(sg, a, s, e) ==
  Carry(sg,
        a \div Pow2(s)
          + (IF RoundUp(a \div Pow2(s), a % Pow2(s), Pow2(s - 1)) THEN 1 ELSE 0),
        e + s)

\* a has len digits
Normalise(sg, a, len, e) ==
  IF len > PREC THEN RoundBits(sg, a, len - PREC, e)
  ELSE [m |-> sg * a * Pow2(PREC - len), e |-> e - (PREC - len)]

\* the JS number nearest to m * 2^e
Round(m, e) ==
  IF m = 0 THEN [m |-> 0, e |-> 0]
  ELSE Normalise(Sgn(m), Abs(m), BitLen(Abs(m)), e)

\* a * b
Mul(a, b) == Round(a.m * b.m, a.e + b.e)

\* the quotient digits num \div den, with a last digit that tells whether the
\* division left a remainder
Quotient(sg, num, den, e) ==
  Round(sg * (2 * (num \div den) + (IF num % den = 0 THEN 0 ELSE 1)), e - 1)

\* a / b, b # 0
Div(a, b) ==
  IF a.m = 0 THEN [m |-> 0, e |-> 0]
  ELSE Quotient(Sgn(a.m) * Sgn(b.m), Abs(a.m) * Pow2(PREC + 2), Abs(b.m),
                a.e - b.e - (PREC + 2))

\* hi + lo where hi.e >= lo.e: a term below an eighth of the last digit of
\* hi is absorbed
AddAligned(hi, lo) ==
  IF hi.e - lo.e > PREC + 2 THEN hi
  ELSE Round(hi.m * Pow2(hi.e - lo.e) + lo.m, lo.e)

\* a + b
Add(a, b) ==
  IF a.m = 0 THEN b
  ELSE IF b.m = 0 THEN a
  ELSE IF a.e >= b.e THEN AddAligned(a, b)
  ELSE AddAligned(b, a)

Neg(a) == [m |-> -a.m, e |-> a.e]

\* a < b
Less(a, b) == Add(a, Neg(b)).m < 0

\* Math.floor(Math.abs(b)), as an integer
FloorAbs(b) ==
  IF b.e >= 0 THEN Abs(b.m) * Pow2(b.e)
  ELSE IF -b.e > 30 THEN 0
  ELSE Abs(b.m) \div Pow2(-b.e)

\* TPI = Math.PI * 2.0 as a JS number: 843314857 * 2^-27 is 2 pi to 30 digits
TPI_Number == Round(843314857, -27)

\* lines 40-41 of Astro.range
rangeWrap(a) == IF a.m < 0 THEN Add(TPI_Number, a) ELSE a

\* line 39 of Astro.range
rangeTurns(b) ==
  rangeWrap(Mul(TPI_Number,
                Add(b, Neg(Round(Sgn(b.m) * FloorAbs(b), 0)))))

\* Astro.range on JS numbers
rangeNumber(x) == rangeTurns(Div(x, TPI_Number))

\* line 48 of Astro.sun
sunLongitude(longitude, g) ==
  range(longitude + Trunc(19150 * Sin(g), 10000)
                  + Trunc(200 * Sin(2 * g), 10000))

\* Astro.sun: ecliptic longitude of the sun, day in minutes
sun(day) ==
  sunLongitude(range(Linear(2804610, 9856, 474, day)),
               range(Linear(3575280, 9856, 3, day)))

sunAngle(date) == IF date = NaN THEN NaN ELSE sun(epoch2000Date(date))

\* season dividing the circle into three parts
season_thirds(date) == Trunc(Times(sunAngle(date), 3), TPI)

\* Season: 0=spring, 1=summer, 2=autumn, 3=winter
season(date) == Trunc(Times(sunAngle(date), 4), TPI)

\* Zodiac sign: 0=Aries ... 11=Pisces
sign(date) == Trunc(Times(sunAngle(date), 12), TPI)

\* lines 70-77 of Astro.julian, after the month < 3 adjustment
julianDay(year, month, day) ==
  (IF year > 1582 \/ (year = 1582 /\ month > 10)
      \/ (year = 1582 /\ month = 10 /\ day > 15)
   THEN 2 - Trunc(year, 100) + Trunc(Trunc(year, 100), 4) ELSE 0)
  + Trunc(36525 * year, 100) + Trunc(306001 * (month + 1), 10000)
  + day + 1720994

\* Astro.julian.  The caller passes day - 2444238.5 and the function adds
\* 1720994.5; the two halves cancel, so both are kept as whole days here.
julian(y, m, day) ==
  julianDay(IF m < 3 THEN y - 1 ELSE y, IF m < 3 THEN m + 12 ELSE m, day)

\* the do-while loop of sunPosition: [e, n, dl] at its exit, n = iterations
\* run, dl the last residual.  With NaN the test Math.abs(dl) >= SMALL_FLOAT
\* is false and the loop ends.
RECURSIVE Kepler(_, _, _)
KeplerTest(x, n, dl, e2) ==
  IF dl # NaN /\ Abs(dl) >= SMALL_FLOAT THEN Kepler(x, e2, n + 1)
  ELSE [e |-> e2, n |-> n + 1, dl |-> dl]

KeplerStep(x, e, n, dl) ==
  KeplerTest(x, n, dl,
    IF dl = NaN THEN NaN
    ELSE e - Trunc(dl * 10000, 10000 - Trunc(16718 * Cos(e), 1000000)))

Kepler(x, e, n) ==
  KeplerStep(x, e, n,
    IF x = NaN \/ e = NaN THEN NaN ELSE e - Trunc(9579 * Sin(e), 10000) - x)

\* atan's branch (-180, 180) of an angle in [0, 360)
PrincipalBranch(w) == IF w < 1800000 THEN w ELSE w - 3600000

\* 360 / PI * atan(1.01686011182 * tan(e / 2)), by the series
\* v = e + 2b sin e + b^2 sin 2e with b = 0.0083596
AtanTan(e) ==
  PrincipalBranch((e + Trunc(9579 * Sin(e), 10000)
                     + Trunc(40 * Sin(2 * e), 10000)) % 3600000)

\* lines 82-87 of sunPosition: the mean anomaly x
sunMeanAnomaly(j) ==
  IF j = NaN THEN NaN
  ELSE AddTurnIfNegative(DropWholeTurns(Linear(0, 9856, 474, j)) - 37629)

\* lines 96-98 of sunPosition
sunFromAnomaly(e) ==
  IF e = NaN THEN NaN ELSE DropWholeTurns(AtanTan(e) + 2825964)

\* lines 88-93 of sunPosition: e = x, then the loop
KeplerFrom(x) == Kepler(x, x, 0)

\* lines 88-98 of sunPosition
sunTrueLongitude(x) == sunFromAnomaly(KeplerFrom(x).e)

\* Astro.sunPosition, j in minutes
sunPosition(j) == sunTrueLongitude(sunMeanAnomaly(j))

\* line 121 of moonPosition
moonVariation(l, ls) == Trunc(6583 * Sin(2 * (l - ls)), 10000) + l

\* lines 119-120 of moonPosition
moonCentre(l, ls, ev, ae, mm) ==
  moonVariation(l + ev + Trunc(62886 * Sin(mm), 10000) - ae
                  + Trunc(2140 * Sin(2 * mm), 10000), ls)

\* lines 117-118 of moonPosition
moonAnnual(l, ls, mm, ev, sms) ==
  moonCentre(l, ls, ev, Trunc(1858 * sms, 10000),
             mm + ev - Trunc(1858 * sms, 10000) - Trunc(3700 * sms, 10000))

\* lines 115-116 of moonPosition
moonEvection(l, ls, mm, ms) ==
  moonAnnual(l, ls, mm, Trunc(12739 * Sin(2 * (l - ls) - mm), 10000), Sin(ms))

\* lines 109-111 of moonPosition
moonAnomaly(j, ls, l, ms) ==
  moonEvection(l, ls, DropWholeTurns(l - Linear(0, 1114, 41, j) - 3493831), ms)

\* Astro.moonPosition, j in minutes, ls in units
moonPosition(j, ls) ==
  moonAnomaly(j, ls,
    AddTurnIfNegative(DropWholeTurns(Linear(649755, 131763, 960, j))),
    AddTurnIfNegative(Linear(-37629, 9856, 473, j)))

\* lines 138-141 of moonPhase_ without line 141
moonMinusSun_raw(jUtc, ls) ==
  IF ls = NaN THEN NaN ELSE moonPosition(jUtc, ls) - ls

\* lines 138-141 of moonPhase_
moonMinusSun(jUtc, ls) ==
  IF ls = NaN THEN NaN ELSE AddTurnIfNegative(moonPosition(jUtc, ls) - ls)

\* lines 134-136 of moonPhase_: jUtc in minutes
moonJulian(year, month, day, hour, minute, utcMinutes) ==
  julian(year, month, day - 2444238) * 1440 + hour * 60 + minute + utcMinutes

\* lines 128-136 of moonPhase_: the fields of an Invalid Date are NaN
moonJulianDate(dt) ==
  IF dt = NaN THEN NaN
  ELSE moonJulian(getFullYear(dt), getMonth(dt) + 1, getDate(dt),
                  getHours(dt), getMinutes(dt), toUtcMinutes(dt))

\* Astro.moonPhase_: the phase field (t) of the returned object
moonPhase_(dt) ==
  moonMinusSun(moonJulianDate(dt), sunPosition(moonJulianDate(dt)))

\* Phase angle
phase(date) == Rem(moonPhase_(date), DEG360)

\* Moon phase quarter: 0=new, 1=first quarter, 2=full, 3=last quarter
moonPhase(date) == Trunc(phase(date), 900000)

\* endOfDay as the local midnight of the next calendar day
endOfDay_nextMidnight(day) ==
  IF day = NaN THEN NaN
  ELSE NewDate(getFullYear(day), getMonth(day), getDate(day) + 1)

\* midnight + 24h of the given day
endOfDay(day) == addMs(midnightOf(day), DAY_MS)

\* ------------------------------------------------------------------------
\* calendarDate.js
\* ------------------------------------------------------------------------
Null == -1                \* null (fractions are never negative)

\* new Date(startMs + f * 86400000), f in units of 2^-21:
\* f * 1440 / 2^21 minutes = f * 45 / 65536, cut to the minute the fields read
DateAtFraction(startMs, f) == addMs(startMs, (f * 45) \div 65536)

\* the loop of _findPhaseFraction from iteration k on
RECURSIVE findPhaseFractionLoop(_, _, _, _, _)
findPhaseFractionLoop(startMs, oldPhase, lo, hi, k) ==
  IF k < BISECT_ITER
  THEN LET mid == (lo + hi) \div 2
       IN  IF StrictEqual(moonPhase(DateAtFraction(startMs, mid)), oldPhase)
           THEN findPhaseFractionLoop(startMs, oldPhase, mid, hi, k + 1)
           ELSE findPhaseFractionLoop(startMs, oldPhase, lo, mid, k + 1)
  ELSE (lo + hi) \div 2

\* _findPhaseFraction searching for the quarter after the record's own
findPhaseFraction_following(this) ==
  findPhaseFractionLoop(this.today, (this.mLunarPhase + 1) % 4, 0, FRAC_ONE, 0)

\* CalendarDate._findPhaseFraction
findPhaseFraction(this) ==
  LET startMs  == this.today
      oldPhase == (this.mLunarPhase + 3) % 4
  IN  findPhaseFractionLoop(startMs, oldPhase, 0, FRAC_ONE, 0)

\* the loop of _findSplitFraction from iteration k on
RECURSIVE findSplitFractionLoop(_, _, _, _, _)
findSplitFractionLoop(startMs, mSignStart, lo, hi, k) ==
  IF k < BISECT_ITER
  THEN LET mid == (lo + hi) \div 2
       IN  IF StrictEqual(sign(DateAtFraction(startMs, mid)), mSignStart)
           THEN findSplitFractionLoop(startMs, mSignStart, mid, hi, k + 1)
           ELSE findSplitFractionLoop(startMs, mSignStart, lo, mid, k + 1)
  ELSE (lo + hi) \div 2

\* _findSplitFraction whose loop runs 19 times
findSplitFraction_19(today, mSignStart) ==
  findSplitFractionLoop(today, mSignStart, 0, FRAC_ONE, 1)

\* CalendarDate._findSplitFraction
findSplitFraction(today, mSignStart) ==
  findSplitFractionLoop(today, mSignStart, 0, FRAC_ONE, 0)

\* _newMoonWeek reading the values at the end of the day six days ago
newMoonWeek_endOfDay(today, mSeason, mLunarPhase) ==
  IF StrictEqual(mSeason, season(endOfDay(addMs(today, -6 * DAY_MS))))
  THEN mLunarPhase = 0 /\ moonPhase(endOfDay(addMs(today, -6 * DAY_MS))) = 3
  ELSE FALSE

\* CalendarDate._newMoonWeek
newMoonWeek(today, mSeason, mLunarPhase) ==
  IF StrictEqual(mSeason, season(addMs(today, -6 * DAY_MS)))
  THEN mLunarPhase = 0 /\ moonPhase(addMs(today, -6 * DAY_MS)) = 3
  ELSE FALSE

\* the constructor computing a split fraction for every day
DayRecord_alwaysSplit(today, tropical, lunar, seas, start) ==
  [today          |-> today,
   mTropicalPhase |-> tropical,
   mLunarPhase    |-> lunar,
   mSeason        |-> seas,
   mSignStart     |-> start,
   mSplitFraction |-> findSplitFraction(today, start),
   mNewMoonWeek   |-> newMoonWeek(today, seas, lunar),
   mPlace         |-> [x |-> 0, y |-> 0],
   mIsPhaseStart  |-> FALSE,
   mIsPhaseEnd    |-> FALSE,
   mPhaseFraction |-> Null]

\* lines 295-317 of the constructor: the fields, from the values computed
DayRecord(today, tropical, lunar, seas, start) ==
  [today          |-> today,
   mTropicalPhase |-> tropical,
   mLunarPhase    |-> lunar,
   mSeason        |-> seas,
   mSignStart     |-> start,
   mSplitFraction |-> IF ~StrictEqual(start, tropical)
                      THEN findSplitFraction(today, start) ELSE Null,
   mNewMoonWeek   |-> newMoonWeek(today, seas, lunar),
   mPlace         |-> [x |-> 0, y |-> 0],
   mIsPhaseStart  |-> FALSE,
   mIsPhaseEnd    |-> FALSE,
   mPhaseFraction |-> Null]

\* the constructor reading the season at the start of the day
ClassifyDay_seasonAtStart(today, tomorrow) ==
  DayRecord(today, sign(tomorrow), moonPhase(tomorrow), season(today),
            sign(today))

\* lines 287-292 of the constructor: sign, quarter and season at the end of
\* the day, sign at its start
ClassifyDay(today, tomorrow) ==
  DayRecord(today, sign(tomorrow), moonPhase(tomorrow), season(tomorrow),
            sign(today))

\* line 284 of the constructor: tomorrow = Astro.endOfDay(today)
ClassifyFrom(today) == ClassifyDay(today, endOfDay(today))

\* CalendarDate constructor
CalendarDate(date) == ClassifyFrom(midnightOf(date))

leftPoint(c) == c.mPlace.x - 1

rightPoint(c) == c.mPlace.x + 3

topPoint(c) == c.mPlace.y

bottomPoint(c) == c.mPlace.y + 3

\* nextDate stepping by 24 hours instead of one calendar day
nextDate_plus24h(this) == this.today + DAY_MS

\* the civil day new Date(y, m, d + 1) that CalendarDate.next classifies
nextDate(this) ==
  NewDate(getFullYear(this.today), getMonth(this.today), getDate(this.today) + 1)

\* a row break that resets x by 3 cells only
rowBreakPlace_short(p) == [x |-> p.x - 9, y |-> p.y + 3]

\* line 369 of next(): the place of the first cell of the next row
rowBreakPlace(p) == [x |-> p.x - 19, y |-> p.y + 3]

\* line 364 of next(): the place of the next cell of the same row
sameRowPlace(p) == [x |-> p.x + 3, y |-> p.y]

\* next() that does not mark the receiver as the end of its row
placeNext_noPhaseEnd(this, nx) ==
  IF this.mLunarPhase = nx.mLunarPhase
  THEN [this |-> this,
        next |-> [nx EXCEPT !.mPlace = sameRowPlace(this.mPlace)]]
  ELSE [this |-> this,
        next |-> [nx EXCEPT !.mIsPhaseStart  = TRUE,
                            !.mPhaseFraction = findPhaseFraction(nx),
                            !.mPlace = rowBreakPlace(this.mPlace)]]

\* lines 363-370 of next(): nx is the record made for the next day
placeNext(this, nx) ==
  IF this.mLunarPhase = nx.mLunarPhase
  THEN [this |-> this,
        next |-> [nx EXCEPT !.mPlace = sameRowPlace(this.mPlace)]]
  ELSE [this |-> [this EXCEPT !.mIsPhaseEnd = TRUE],
        next |-> [nx EXCEPT !.mIsPhaseStart  = TRUE,
                            !.mPhaseFraction = findPhaseFraction(nx),
                            !.mPlace = rowBreakPlace(this.mPlace)]]

\* next() that advances the date of its receiver instead of reading it
next_advancesReceiver(this) ==
  placeNext([this EXCEPT !.today = nextDate(this)], CalendarDate(nextDate(this)))

\* CalendarDate.next: [this |-> the receiver after the call, next |-> the result]
next(this) == placeNext(this, CalendarDate(nextDate(this)))

\* ------------------------------------------------------------------------
\* Inputs
\* ------------------------------------------------------------------------
\* host time zones: UTC without DST; UTC with the 23-hour day on 2000-03-20
\* and the 25-hour day on 2000-10-29; central Europe (2000-03-26 /
\* 2000-10-29); a zone one hour west whose 25-hour day is 2000-03-27 and 
\* whose 23-hour day is 2000-10-08
TimeZones ==
  { [std |-> 0,   on |-> 0,     off |-> 0],
    [std |-> 0,   on |-> 11036, off |-> 11259],
    [std |-> -60, on |-> 11042, off |-> 11259],
    [std |-> 60,  on |-> 11238, off |-> 11043] }

\* day numbers of the anchor dates: 2000-04-03 and 2000-08-31
Anchors == {11050, 11200}

\* ------------------------------------------------------------------------
\* app.js
\* ------------------------------------------------------------------------
Infinity == 1000000000

\* a CalendarDate variable that holds no object yet
NoDate ==
  [today |-> 0, mTropicalPhase |-> 0, mLunarPhase |-> 0, mSeason |-> 0,
   mSignStart |-> 0, mSplitFraction |-> Null, mNewMoonWeek |-> FALSE,
   mPlace |-> [x |-> 0, y |-> 0], mIsPhaseStart |-> FALSE,
   mIsPhaseEnd |-> FALSE, mPhaseFraction |-> Null]

\* no click yet: no gesture, no season displayed before it, no timer pending
NoGesture == [tap |-> "none", from |-> -1, timer |-> FALSE]

\* lastClickTime = 0, at a time long after the epoch; no call of handleTap yet
NoClicks == [now |-> 1000, lastClickTime |-> 0, taps |-> <<>>]

\* px; matches #header height in style.css
HEADER_HEIGHT == 44

\* the window when the script runs: innerWidth and innerHeight in px
WindowAtStart == [width |-> 800, height |-> 644]

\* the canvas and the state of lines 29-31, 76 and 145-148 before the script's
\* last lines.  Lengths on screen are in thousandths of a px, scaling in
\* thousandths of a px per cell width; frames counts the callbacks requested
\* from requestAnimationFrame and not yet run, marks the calls of markDirty
\* since the last draw, painted is what the last draw put on the canvas.
NoScreen ==
  [canvas |-> [width |-> 300, height |-> 150],
   scaling |-> 1000, offsetX |-> 0, offsetY |-> 0,
   dirty |-> FALSE, frames |-> 0, marks |-> 0,
   painted |-> [scaling |-> 0, offsetX |-> 0, offsetY |-> 0, layout |-> 0,
                splitDays |-> TRUE],
   isDragging |-> FALSE, dragStartX |-> 0, dragStartY |-> 0,
   dragTotalMoved |-> 0, overlay |-> FALSE, splitDays |-> TRUE, events |-> 0]

\* markDirty without the test of dirty
markDirty_unguarded(s) ==
  [s EXCEPT !.dirty = TRUE, !.frames = @ + 1, !.marks = @ + 1]

\* markDirty: lines 78-83
markDirty(s) ==
  IF ~s.dirty THEN [s EXCEPT !.dirty = TRUE, !.frames = @ + 1, !.marks = @ + 1]
  ELSE [s EXCEPT !.marks = @ + 1]

\* lines 112-113 of centreOnSeason: canvas.height / worldH, the bounds being in
\* sixths of a cell width.  With the bounds of an empty layout worldH is
\* -Infinity and the quotient is -0.
fitScale(height) ==
  IF bounds.top = Infinity THEN 0
  ELSE (height * 6000) \div (bounds.bottom - bounds.top + 6)

\* lines 116-117 of centreOnSeason
centred(s, scaling) ==
  [s EXCEPT !.scaling = scaling,
            !.offsetX = IF bounds.left = Infinity THEN NaN
                        ELSE ((3 - 2 * bounds.left) * scaling) \div 12,
            !.offsetY = scaling \div 2]

centreOnSeason(s) == centred(s, fitScale(s.canvas.height))

\* lines 21-22 of resizeCanvas: re-fit a layout, request a redraw
refit(s) == markDirty(IF Len(seasonCalendar) > 0 THEN centreOnSeason(s) ELSE s)

\* resizeCanvas in a window of size w
resizeCanvas(s, w) ==
  refit([s EXCEPT !.canvas = [width |-> w.width,
                              height |-> w.height - HEADER_HEIGHT]])

\* state after the script's declarations, before the bootstrap loadSeason
InitApp ==
  /\ tz \in TimeZones
  /\ pc = "idle"
  /\ loads = 0
  /\ \E a \in Anchors : targetDate = a * 1440 + 720
  /\ d = 0
  /\ i = 0
  /\ targetSeason = 0
  /\ first = 0
  /\ current = NoDate
  /\ seasonCalendar = <<>>
  /\ bounds = [top |-> 0, left |-> 0, bottom |-> 0, right |-> 0]
  /\ built = <<>>
  /\ ui = NoGesture
  /\ clicks = NoClicks
  /\ screen = NoScreen

\* the values of Astro.sign, Astro.season and Astro.moonPhase at instant t,
\* with lm - ls of moonPhase_ (line 140) before its correction
ProbeAt(t, n) ==
  [instant |-> t, n |-> n, sign |-> sign(t), season |-> season(t),
   quarter |-> moonPhase(t),
   raw |-> moonPosition(
             moonJulian(getFullYear(t), getMonth(t) + 1, getDate(t),
                        getHours(t), getMinutes(t), toUtcMinutes(t)),
             sunPosition(
               moonJulian(getFullYear(t), getMonth(t) + 1, getDate(t),
                          getHours(t), getMinutes(t), toUtcMinutes(t))))
           - sunPosition(
               moonJulian(getFullYear(t), getMonth(t) + 1, getDate(t),
                          getHours(t), getMinutes(t), toUtcMinutes(t)))]

Init ==
  /\ InitApp
  /\ probe = [instant |-> 0, n |-> 0, sign |-> 0, season |-> 0, quarter |-> 0,
              raw |-> 0]

\* loadSeason(date) up to the loop of findFirstInSeason
loadSeason(date) ==
  /\ loads' = loads + 1
  /\ targetDate' = date
  /\ seasonCalendar' = <<>>
  /\ d' = midnightOf(date)
  /\ targetSeason' = season(endOfDay(d'))
  /\ i' = 0
  /\ pc' = "find"
  /\ UNCHANGED <<tz, first, current, bounds, probe>>

\* the bootstrap call loadSeason(targetDate)
Bootstrap ==
  /\ pc = "idle"
  /\ loadSeason(targetDate)
  /\ screen' = [resizeCanvas(screen, WindowAtStart) EXCEPT !.overlay = TRUE]
  /\ UNCHANGED <<built, ui, clicks>>

\* the next season is loaded from the calendar day after the last record
NextSeason ==
  /\ pc = "done"
  /\ loads < MaxLoads
  /\ Len(seasonCalendar) > 0
  /\ loadSeason(nextDate(seasonCalendar[Len(seasonCalendar)]))
  /\ built' = Append(built, seasonCalendar[1].mSeason)
  /\ UNCHANGED <<ui, clicks, screen>>

\* one iteration of the loop of findFirstInSeason, or its exit at the cap
findFirstInSeason ==
  /\ pc = "find"
  /\ IF i < WALK_CAP
     THEN /\ d' = addMs(d, -DAY_MS)
          /\ IF ~StrictEqual(season(endOfDay(d')), targetSeason)
             THEN /\ first' = addMs(d', DAY_MS)
                  /\ pc' = "construct"
                  /\ i' = i
             ELSE /\ first' = first
                  /\ pc' = pc
                  /\ i' = i + 1
     ELSE /\ first' = midnightOf(targetDate)
          /\ pc' = "construct"
          /\ UNCHANGED <<d, i>>
  /\ UNCHANGED <<tz, loads, targetDate, targetSeason, current, seasonCalendar,
                 bounds, built, probe, ui, clicks, screen>>

\* constructSeason from the return of findFirstInSeason to its loop
constructSeasonStart ==
  /\ pc = "construct"
  /\ current' = [CalendarDate(first) EXCEPT !.mPlace = [x |-> 0, y |-> 0]]
  /\ targetSeason' = current'.mSeason
  /\ bounds' = [top |-> Infinity, left |-> Infinity,
                bottom |-> -Infinity, right |-> -Infinity]
  /\ i' = 0
  /\ pc' = "build"
  /\ UNCHANGED <<tz, loads, targetDate, d, first, seasonCalendar, built, probe, ui, clicks, screen>>

\* lines 64 and 70 of constructSeason: r is the outcome of current.next()
pushAndAdvance(r) ==
  /\ seasonCalendar' = Append(seasonCalendar, r.this)
  /\ current' = r.next

\* one iteration of the loop of constructSeason, or its exit and the rest of
\* loadSeason (centreOnSeason, markDirty)
constructSeason ==
  /\ pc = "build"
  /\ IF i < WALK_CAP /\ StrictEqual(current.mSeason, targetSeason)
     THEN /\ pushAndAdvance(next(current))
          /\ bounds' = [top    |-> Min(bounds.top, topPoint(current)),
                        left   |-> Min(bounds.left, leftPoint(current)),
                        bottom |-> Max(bounds.bottom, bottomPoint(current)),
                        right  |-> Max(bounds.right, rightPoint(current))]
          /\ i' = i + 1
          /\ pc' = pc
          /\ screen' = screen
     ELSE /\ pc' = "done"
          /\ screen' = markDirty(centreOnSeason(screen))
          /\ UNCHANGED <<seasonCalendar, bounds, current, i>>
  /\ UNCHANGED <<tz, loads, targetDate, d, targetSeason, first, built, probe,
                 ui, clicks>>

Next ==
  \/ Bootstrap
  \/ NextSeason
  \/ findFirstInSeason
  \/ constructSeasonStart
  \/ constructSeason

Spec == Init /\ [][Next]_vars

\* a step of a load in progress, by what it does to pc and i: every step of
\* findFirstInSeason, constructSeasonStart and constructSeason changes one
\* of the two
walkStep ==
  /\ pc \in {"find", "construct", "build"}
  /\ pc' \in {"find", "construct", "build", "done"}
  /\ i' \in 0..WALK_CAP

\* loadSeason runs to its end once called: the steps of the two walks are
\* consecutive statements of one synchronous call
SpecFair == Spec /\ WF_<<pc, i>>(walkStep)

\* ------------------------------------------------------------------------
\* app.js: the date picker and season navigation
\* ------------------------------------------------------------------------
\* values of the date input: 2000-03-20, 2000-09-21, and a date past the
\* last Date (275760-09-13)
PickerValues ==
  { [y |-> 2000, m |-> 3, d |-> 20], [y |-> 2000, m |-> 9, d |-> 21],
    [y |-> 275760, m |-> 9, d |-> 14] }

\* milliseconds between the two clicks of a double click
ClickGaps == {10, 150}

parseDateValue(v) == NewDate(v.y, v.m - 1, v.d)

\* the season of the layout on display, -1 when it has no record
displayed == IF Len(seasonCalendar) > 0 THEN seasonCalendar[1].mSeason ELSE -1

\* the host zone is UTC without clock changes
InitUI ==
  /\ Init
  /\ tz = [std |-> 0, on |-> 0, off |-> 0]

\* click on the Go button with value v in the date input
goBtn ==
  /\ pc = "done"
  /\ ~ui.timer
  /\ loads < MaxUiLoads
  /\ \E v \in PickerValues : loadSeason(parseDateValue(v))
  /\ ui' = [tap |-> "go", from |-> displayed, timer |-> FALSE]
  /\ screen' = [screen EXCEPT !.overlay = FALSE]
  /\ UNCHANGED <<built, clicks>>

\* handleTap for a click that no other click precedes or follows within
\* 300 ms, and its timer 310 ms later
singleTap ==
  /\ pc = "done"
  /\ ~ui.timer
  /\ loads < MaxUiLoads
  /\ loadSeason(setMonth(targetDate, getMonth(targetDate) + 3))
  /\ ui' = [tap |-> "single", from |-> displayed, timer |-> FALSE]
  /\ UNCHANGED <<built, clicks, screen>>

\* handleTap for the second of two clicks gap ms apart (isDouble); the timer
\* of the first click is still to run, 310 - gap ms after lastClickTime
doubleTap ==
  /\ pc = "done"
  /\ ~ui.timer
  /\ loads < MaxUiLoads
  /\ loadSeason(setMonth(targetDate, getMonth(targetDate) - 3))
  /\ \E gap \in ClickGaps :
       ui' = [tap |-> "double", from |-> displayed, timer |-> 310 - gap >= 290]
  /\ UNCHANGED <<built, clicks, screen>>

\* the timer of the first click of a double click: lines 227-233 of handleTap
tapTimeout ==
  /\ pc = "done"
  /\ ui.timer
  /\ loadSeason(setMonth(targetDate, getMonth(targetDate) + 3))
  /\ ui' = [ui EXCEPT !.timer = FALSE]
  /\ UNCHANGED <<built, clicks, screen>>

NextUI ==
  \/ Bootstrap
  \/ goBtn
  \/ singleTap
  \/ doubleTap
  \/ tapTimeout
  \/ findFirstInSeason
  \/ constructSeasonStart
  \/ constructSeason

SpecUI == InitUI /\ [][NextUI]_vars

\* ------------------------------------------------------------------------
\* app.js: handleTap and its timers, with the times of the clicks
\* ------------------------------------------------------------------------
\* milliseconds from one click to the next
TapGaps == {10, 150, 305, 700}

\* the calls of handleTap whose timer has not run yet
pendingTaps == {k \in 1..Len(clicks.taps) : clicks.taps[k].timer = "pending"}

\* the time of the next click, gap ms after the last one
nextClickTime(gap) ==
  IF Len(clicks.taps) = 0 THEN clicks.now
  ELSE clicks.taps[Len(clicks.taps)].at + gap

\* clicks after a call of handleTap at time t
clicked(t, double) ==
  [now |-> t, lastClickTime |-> t,
   taps |-> Append(clicks.taps,
                   [at |-> t, double |-> double,
                    timer |-> IF double THEN "none" ELSE "pending"])]

\* handleTap at time t: lines 218-234
handleTapAt(t) ==
  IF t - clicks.lastClickTime < 300
  THEN /\ loadSeason(setMonth(targetDate, getMonth(targetDate) - 3))
       /\ clicks' = clicked(t, TRUE)
  ELSE /\ clicks' = clicked(t, FALSE)
       /\ UNCHANGED <<tz, pc, loads, targetDate, d, i, targetSeason, first,
                      current, seasonCalendar, bounds, probe>>

\* a click on the canvas (mouseup or touchend without movement); the timers
\* due before it have run
handleTap ==
  /\ pc = "done"
  /\ Len(clicks.taps) < MaxTaps
  /\ \E gap \in TapGaps :
       /\ \A k \in pendingTaps : clicks.taps[k].at + 310 > nextClickTime(gap)
       /\ handleTapAt(nextClickTime(gap))
  /\ UNCHANGED <<built, ui, screen>>

\* the callback of setTimeout for call k of handleTap, at time t
timerAt(k, t) ==
  IF t - clicks.lastClickTime >= 290
  THEN /\ loadSeason(setMonth(targetDate, getMonth(targetDate) + 3))
       /\ clicks' = [clicks EXCEPT !.now = t, !.taps[k].timer = "loaded"]
  ELSE /\ clicks' = [clicks EXCEPT !.now = t, !.taps[k].timer = "lapsed"]
       /\ UNCHANGED <<tz, pc, loads, targetDate, d, i, targetSeason, first,
                      current, seasonCalendar, bounds, probe>>

\* the earliest pending timer runs, 310 ms after its click
timerFires ==
  /\ pc = "done"
  /\ \E k \in pendingTaps :
       /\ \A j \in pendingTaps : j >= k
       /\ timerAt(k, clicks.taps[k].at + 310)
  /\ UNCHANGED <<built, ui, screen>>

NextTap ==
  \/ Bootstrap
  \/ handleTap
  \/ timerFires
  \/ findFirstInSeason
  \/ constructSeasonStart
  \/ constructSeason

SpecTap == InitUI /\ [][NextTap]_vars

\* ------------------------------------------------------------------------
\* app.js: pan, resize, the split-days box and the redraw
\* ------------------------------------------------------------------------
\* sizes of the window after a resize
WindowSizes == {[width |-> 400, height |-> 844], [width |-> 1200, height |-> 444]}

\* positions of the mouse, in px
MousePoints == {[x |-> 0, y |-> 0], [x |-> 3, y |-> 4]}

\* an event handler has run and left s
handled(s) ==
  /\ screen' = [s EXCEPT !.events = @ + 1]
  /\ UNCHANGED <<tz, pc, loads, targetDate, d, i, targetSeason, first, current,
                 seasonCalendar, bounds, built, probe, ui, clicks>>

\* handlers run between the script and the callbacks, not inside a load
ready == pc = "done" /\ screen.events < MaxEvents

\* the resize listener of the window
resize ==
  /\ ready
  /\ \E w \in WindowSizes : handled(resizeCanvas(screen, w))

\* the mousedown listener: lines 151-157
mousedown ==
  /\ ready
  /\ \E p \in MousePoints :
       handled(IF screen.overlay THEN [screen EXCEPT !.overlay = FALSE]
               ELSE [screen EXCEPT !.isDragging = TRUE, !.dragStartX = p.x,
                                   !.dragStartY = p.y, !.dragTotalMoved = 0])

\* lines 160-168 of the mousemove listener, the mouse being at p
dragged(s, p) ==
  markDirty([s EXCEPT
    !.dragTotalMoved = @ + Abs(p.x - s.dragStartX) + Abs(p.y - s.dragStartY),
    !.offsetX = @ + 1000 * (p.x - s.dragStartX),
    !.offsetY = @ + 1000 * (p.y - s.dragStartY),
    !.dragStartX = p.x,
    !.dragStartY = p.y])

\* the mousemove listener
mousemove ==
  /\ ready
  /\ \E p \in MousePoints :
       handled(IF screen.isDragging THEN dragged(screen, p) ELSE screen)

\* the mouseleave listener
mouseleave ==
  /\ ready
  /\ handled([screen EXCEPT !.isDragging = FALSE])

\* the change listener of the split-days box: lines 278-281
splitDaysChange ==
  /\ ready
  /\ handled(markDirty([screen EXCEPT !.splitDays = ~@]))

\* what draw puts on the canvas
drawn(s) ==
  [scaling |-> s.scaling, offsetX |-> s.offsetX, offsetY |-> s.offsetY,
   layout |-> loads, splitDays |-> s.splitDays]

\* the callback requested from requestAnimationFrame: draw
draw ==
  /\ pc = "done"
  /\ screen.frames > 0
  /\ screen' = [screen EXCEPT !.dirty = FALSE, !.frames = @ - 1, !.marks = 0,
                               !.painted = drawn(screen)]
  /\ UNCHANGED <<tz, pc, loads, targetDate, d, i, targetSeason, first, current,
                 seasonCalendar, bounds, built, probe, ui, clicks>>

NextDraw ==
  \/ Bootstrap
  \/ findFirstInSeason
  \/ constructSeasonStart
  \/ constructSeason
  \/ resize
  \/ mousedown
  \/ mousemove
  \/ mouseleave
  \/ splitDaysChange
  \/ draw

\* a load runs to its end, and the browser runs a requested animation frame
SpecDraw ==
  /\ InitUI
  /\ [][NextDraw]_vars
  /\ WF_<<pc, i>>(walkStep)
  /\ WF_vars(draw)

\* ------------------------------------------------------------------------
\* The ephemeris functions applied to instants
\* ------------------------------------------------------------------------
\* a probe run starts at 00:00 UTC of 2000-03-19 (the sun reaches the top of
\* its range on 2000-03-20), 2004-03-19 (moon minus sun passes 360 degrees on
\* 2004-03-20), 2018-03-16 (moon minus sun passes -360 degrees on 2018-03-17)
\* or 2000-07-01
ProbeStarts == {11035 * 1440, 12496 * 1440, 17606 * 1440, 11139 * 1440}

InitProbe ==
  /\ InitApp
  /\ \E t \in ProbeStarts : probe = ProbeAt(t, 0)

\* the functions applied to the instant one hour later
Probe ==
  /\ probe.n < MaxProbes
  /\ probe' = ProbeAt(probe.instant + 60, probe.n + 1)
  /\ UNCHANGED <<tz, pc, loads, targetDate, d, i, targetSeason, first, current,
                 seasonCalendar, bounds, built, ui, clicks, screen>>

NextProbe == Probe

SpecProbe == InitProbe /\ [][NextProbe]_vars

\* ------------------------------------------------------------------------
\* Astro.epoch2000Date applied to instants
\* ------------------------------------------------------------------------
\* 2000-01-01 00:00 UTC, 2000-03-19 00:00 UTC (clocks change in two of the
\* host zones) and 2100-02-28 00:00 UTC
EpochStarts == {10957 * 1440, 11035 * 1440, 47540 * 1440}

\* Astro.epoch2000Date applied to instant t
EpochAt(t, n) == [instant |-> t, n |-> n, epoch |-> epoch2000Date(t)]

InitEpoch ==
  /\ InitApp
  /\ \E t \in EpochStarts : probe = EpochAt(t, 0)

\* Astro.epoch2000Date applied to the instant one hour later
EpochProbe ==
  /\ probe.n < MaxProbes
  /\ probe' = EpochAt(probe.instant + 60, probe.n + 1)
  /\ UNCHANGED <<tz, pc, loads, targetDate, d, i, targetSeason, first, current,
                 seasonCalendar, bounds, built, ui, clicks, screen>>

NextEpoch == EpochProbe

SpecEpoch == InitEpoch /\ [][NextEpoch]_vars

\* ------------------------------------------------------------------------
\* Astro.range applied to angles
\* ------------------------------------------------------------------------
\* significands of the angles tried, both signs: the least, two in between,
\* the significand of 2 pi and the greatest
Significands ==
  {Pow2(PREC - 1), 5 * Pow2(PREC - 3), TPI_Number.m, 7 * Pow2(PREC - 3),
   Pow2(PREC) - 1}

\* Astro.range applied to x
AngleAt(x, n) == [x |-> x, r |-> rangeNumber(x), n |-> n]

\* a run starts at an angle between 32 and 64 radians or its negative
InitRange ==
  /\ InitApp
  /\ \E m \in Significands, sg \in {-1, 1} :
       probe = AngleAt([m |-> sg * m, e |-> 6 - PREC], 0)

\* Astro.range applied to half the angle
HalveAngle ==
  /\ probe.n < MaxAngles
  /\ probe' = AngleAt([m |-> probe.x.m, e |-> probe.x.e - 1], probe.n + 1)
  /\ UNCHANGED <<tz, pc, loads, targetDate, d, i, targetSeason, first, current,
                 seasonCalendar, bounds, built, ui, clicks, screen>>

NextRange == HalveAngle

SpecRange == InitRange /\ [][NextRange]_vars

\* ------------------------------------------------------------------------
\* Properties
\* ------------------------------------------------------------------------
\* the days classified by the running or finished constructSeason, in order:
\* the records of the layout followed by the day held in current
Days ==
  IF pc \in {"build", "done"} THEN Append(seasonCalendar, current)
  ELSE seasonCalendar

\* local midnight of the calendar day before the civil day of Date t
dayBefore(t) == NewDate(getFullYear(t), getMonth(t), getDate(t) - 1)

\* C1: the first day of the sequence is placed at (0,0); a neighbour in the
\* same lunar phase quarter is placed 0.5 to the right on the same row, any
\* other neighbour 19/6 to the left and 0.5 down; no other displacement occurs.
C1_Tiling ==
  /\ Len(Days) > 0 => Days[1].mPlace = [x |-> 0, y |-> 0]
  /\ \A k \in 1 .. Len(Days) - 1 :
       Days[k + 1].mPlace =
         IF Days[k + 1].mLunarPhase = Days[k].mLunarPhase
         THEN [x |-> Days[k].mPlace.x + 3,  y |-> Days[k].mPlace.y]
         ELSE [x |-> Days[k].mPlace.x - 19, y |-> Days[k].mPlace.y + 3]

\* a finished layout with a step to the right and a row break
C1_Witness ==
  /\ pc = "done"
  /\ \E k \in 1 .. Len(seasonCalendar) - 1 :
       seasonCalendar[k + 1].mPlace.y = seasonCalendar[k].mPlace.y
  /\ \E k \in 1 .. Len(seasonCalendar) - 1 :
       seasonCalendar[k + 1].mPlace.y # seasonCalendar[k].mPlace.y

\* C2: the finished layout is one whole season: it contains the anchor's
\* civil day, every record has the anchor's season, and the calendar days just
\* before its first and just after its last record have another season.
C2_WholeSeason ==
  pc = "done" =>
    LET anchor == midnightOf(targetDate)
        target == season(endOfDay(anchor))
        n      == Len(seasonCalendar)
    IN  /\ n > 0
        /\ \E k \in 1 .. n : seasonCalendar[k].today = anchor
        /\ \A k \in 1 .. n : seasonCalendar[k].mSeason = target
        /\ season(endOfDay(dayBefore(seasonCalendar[1].today))) # target
        /\ season(endOfDay(nextDate(seasonCalendar[n]))) # target

\* C3: findFirstInSeason steps back one calendar day per iteration, and the
\* day F it returns has the anchor's season while the calendar day before F
\* has another one.
C3_FindSeasonStart ==
  LET anchor == midnightOf(targetDate)
      target == season(endOfDay(anchor))
  IN  /\ pc = "find" => CivilDay(d) = CivilDay(anchor) - i
      /\ pc = "construct" =>
           /\ season(endOfDay(first)) = target
           /\ season(endOfDay(dayBefore(first))) # target

\* C4: the civil dates of consecutive records differ by exactly one calendar
\* day.
C4_ConsecutiveDays ==
  \A k \in 1 .. Len(Days) - 1 :
    CivilDay(Days[k + 1].today) = CivilDay(Days[k].today) + 1

\* a finished layout that contains a day that is not 24 hours long
C4_Witness ==
  /\ pc = "done"
  /\ \E k \in 1 .. Len(seasonCalendar) - 1 :
       seasonCalendar[k + 1].today - seasonCalendar[k].today # DAY_MS

\* the newest classified day is held in current
Classified == pc \in {"build", "done"}

\* C5: a season change between consecutive classified days comes with a
\* change of signEnd, and the season index is the sign index divided by 3:
\* in every record at the end of its day, and at the start of the day too.
C5_SeasonFromSign ==
  /\ \A k \in 1 .. Len(Days) :
       Days[k].mSeason = Days[k].mTropicalPhase \div 3
  /\ \A k \in 1 .. Len(Days) - 1 :
       Days[k].mSeason # Days[k + 1].mSeason =>
         Days[k].mTropicalPhase # Days[k + 1].mTropicalPhase
  /\ Classified => season(current.today) = current.mSignStart \div 3

\* a finished layout followed by the first day of the next season
C5_Witness ==
  /\ pc = "done"
  /\ Len(seasonCalendar) > 0
  /\ current.mSeason # seasonCalendar[Len(seasonCalendar)].mSeason
  /\ current.mTropicalPhase # seasonCalendar[Len(seasonCalendar)].mTropicalPhase

\* the seasons of the layouts built so far, the finished one last
LayoutSeasons == Append(built, seasonCalendar[1].mSeason)

\* C6: every record of a finished layout has the layout's season, and the
\* layout built from the calendar day after the last record of a layout of
\* season N has season (N + 1) mod 4, so four layouts in a row cycle
\* through the four seasons.
C6_SeasonCycle ==
  pc = "done" =>
    /\ Len(seasonCalendar) > 0
    /\ \A k \in 1 .. Len(seasonCalendar) :
         seasonCalendar[k].mSeason = seasonCalendar[1].mSeason
    /\ \A k \in 1 .. Len(LayoutSeasons) - 1 :
         LayoutSeasons[k + 1] = (LayoutSeasons[k] + 1) % 4

\* four layouts built in a row, the year's wrap from winter to spring among
\* them
C6_Witness ==
  /\ pc = "done"
  /\ Len(seasonCalendar) > 0
  /\ Len(built) = 3
  /\ \E k \in 1 .. 3 : LayoutSeasons[k] = 3 /\ LayoutSeasons[k + 1] = 0

\* the end-of-day instant of the civil day six days before the day of t
sixDaysBeforeEnd(t) ==
  endOfDay(NewDate(getFullYear(t), getMonth(t), getDate(t) - 6))

\* the new-moon-week condition of record r with the earlier values read at e
flagAt(r, e) == r.mLunarPhase = 0 /\ moonPhase(e) = 3 /\ season(e) = r.mSeason

\* C7 as first stated: a day D is flagged iff its quarter is 0 and the values
\* at the end of the civil day six days before D are quarter 3 and D's season.
C7_SixDaysBeforeRecord ==
  Classified =>
    current.mNewMoonWeek = flagAt(current, sixDaysBeforeEnd(current.today))

\* C7: a day D is flagged iff its quarter is 0 and the values at the instant
\* midnight(D) - 6 * 86400000 ms are quarter 3 and D's season; when the seven
\* days before D are 24 hours long, these are the values of the record of the
\* civil day seven days before D.
C7_NewMoonWeek ==
  /\ Classified =>
       current.mNewMoonWeek = flagAt(current, current.today - 6 * DAY_MS)
  /\ \A k \in 8 .. Len(Days) :
       Days[k].today - Days[k - 7].today = 7 * DAY_MS =>
         Days[k].mNewMoonWeek =
           (/\ Days[k].mLunarPhase = 0
            /\ Days[k - 7].mLunarPhase = 3
            /\ Days[k - 7].mSeason = Days[k].mSeason)

\* a finished layout with a flagged day whose sixth day before is already in
\* the new-moon row
C7_Witness ==
  /\ pc = "done"
  /\ \E k \in 8 .. Len(seasonCalendar) :
       /\ seasonCalendar[k].mNewMoonWeek
       /\ seasonCalendar[k - 6].mLunarPhase = 0
       /\ seasonCalendar[k - 7].mLunarPhase = 3

\* the bracket of a fraction f of the day starting at startMs: 2 units are
\* 2^-20 day
before(startMs, f) == DateAtFraction(startMs, f - 2)

after(startMs, f) == DateAtFraction(startMs, f + 2)

\* the split part of C8: on a day whose sign changes, the sign is still
\* signStart at splitFraction - 2^-20 and no longer at splitFraction + 2^-20
C8_SplitBracket ==
  (Classified /\ current.mSignStart # current.mTropicalPhase) =>
    /\ sign(before(current.today, current.mSplitFraction)) = current.mSignStart
    /\ sign(after(current.today, current.mSplitFraction)) # current.mSignStart

\* C8: the bisection postcondition, for splitFraction with the predicate
\* "sign equals signStart" and for phaseFraction with the predicate "quarter
\* equals the quarter before": the predicate holds at f - 2^-20 and fails at
\* f + 2^-20.
C8_BisectionBracket ==
  /\ C8_SplitBracket
  /\ (Classified /\ current.mIsPhaseStart) =>
       /\ moonPhase(before(current.today, current.mPhaseFraction))
            = (current.mLunarPhase + 3) % 4
       /\ moonPhase(after(current.today, current.mPhaseFraction))
            # (current.mLunarPhase + 3) % 4

\* there is a row break between the k-th and the next classified day
RowBreak(k) == Days[k + 1].mPlace.y # Days[k].mPlace.y

\* C9 as first stated: on a row break exactly one of isPhaseEnd(D) and
\* isPhaseStart(D+1) is set.
C9_ExactlyOne ==
  \A k \in 1 .. Len(Days) - 1 :
    RowBreak(k) => (Days[k].mIsPhaseEnd # Days[k + 1].mIsPhaseStart)

\* C9: on every row break between consecutive days D and D+1 both
\* isPhaseEnd(D) and isPhaseStart(D+1) are set.
C9_BothFlags ==
  \A k \in 1 .. Len(Days) - 1 :
    RowBreak(k) => (Days[k].mIsPhaseEnd /\ Days[k + 1].mIsPhaseStart)

\* a finished layout with a row break whose two days carry the flags
C9_Witness ==
  /\ pc = "done"
  /\ \E k \in 1 .. Len(seasonCalendar) - 1 :
       /\ seasonCalendar[k + 1].mPlace.y # seasonCalendar[k].mPlace.y
       /\ seasonCalendar[k].mIsPhaseEnd
       /\ seasonCalendar[k + 1].mIsPhaseStart

C10_BelowMinus360 == probe.n > 0 /\ probe.raw < -DEG360

\* an instant classified in the last twentieth of a degree of the sun's range
C10_TopOfRange == probe.n > 0 /\ sunAngle(probe.instant) >= TPI - 500

\* 2000-01-01 12:00 UTC
J2000 == 10957 * 1440 + 720

\* C12: epoch2000 of an instant is the time from 2000-01-01 12:00 UTC to the
\* instant (here in minutes), whatever the host zone's offset at the instant.
C12_DaysSinceJ2000 == probe.epoch = probe.instant - J2000

\* C11: Astro.range maps every angle, positive or negative, to a value in
\* [0, 2 pi): the result is not negative and is less than 2 pi.
C11_RangeInterval ==
  /\ probe.r.m >= 0
  /\ Less(probe.r, TPI_Number)

\* the exit of the loop of sunPosition when Astro.moonPhase is applied to
\* Date t
KeplerAt(t) == KeplerFrom(sunMeanAnomaly(moonJulianDate(t)))

\* the residual is below the tolerance of the loop
Converged(dl) == dl # NaN /\ Abs(dl) < SMALL_FLOAT

\* C14: a phase quarter is produced only from a Kepler iteration that has
\* brought its residual below the tolerance: the quarter of the record under
\* construction, read at the end of its day, comes from a converged loop.
C14_QuarterFromConverged ==
  Classified => Converged(KeplerAt(endOfDay(current.today)).dl)

\* C15: a load whose date is invalid never ends with a layout (in particular
\* not with an empty layout and infinite bounds).
C15_InvalidDateRejected == ~(pc = "done" /\ targetDate = NaN)

\* the layout an invalid date ends with: no record, infinite bounds
C15_EmptyLayout ==
  /\ pc = "done"
  /\ targetDate = NaN
  /\ seasonCalendar = <<>>
  /\ bounds.top = Infinity
  /\ bounds.right = -Infinity

\* a bisection of exactly 20 halvings of [0, 1] ends on an odd multiple of
\* 2^-21
TwentyHalvings(f) == f # Null => f % 2 = 1

\* the loop counters of a load stay within their caps
BoundedLoops ==
  /\ i <= WALK_CAP
  /\ Len(seasonCalendar) <= WALK_CAP
  /\ Classified =>
       /\ TwentyHalvings(current.mSplitFraction)
       /\ TwentyHalvings(current.mPhaseFraction)
       /\ KeplerAt(endOfDay(current.today)).n <= 50

C17_NextPrevious ==
  (pc = "done" /\ ~ui.timer /\ ui.from # -1) =>
    /\ ui.tap = "single" => displayed = (ui.from + 1) % 4
    /\ ui.tap = "double" => displayed = (ui.from + 3) % 4

\* a single click that loads the season already on display
C17_SameSeason ==
  pc = "done" /\ ui.tap = "single" /\ ui.from # -1 /\ displayed = ui.from

\* a single click that skips a season
C17_SkippedSeason ==
  pc = "done" /\ ui.tap = "single" /\ ui.from # -1
  /\ displayed = (ui.from + 2) % 4

\* a double click whose first timer fires: the season on display is loaded
\* again
C17_DoubleThenTimer ==
  pc = "done" /\ ui.tap = "double" /\ ~ui.timer /\ ui.from # -1
  /\ displayed = ui.from

\* a row break has just been made between the last record pushed and current
JustBroken ==
  pc = "build" /\ Len(seasonCalendar) > 0 /\ current.mIsPhaseStart

InsideDay(f) == f >= 1 /\ f <= FRAC_ONE - 1

\* C19: a classified day has a splitFraction exactly when its sign at the
\* start differs from its sign at the end; a splitFraction and a
\* phaseFraction that are set lie strictly inside (0, 1), between 2^-21 and
\* 1 - 2^-21.
C19_FractionsInsideDay ==
  Classified =>
    /\ current.mSplitFraction # Null
         <=> current.mSignStart # current.mTropicalPhase
    /\ current.mSplitFraction # Null => InsideDay(current.mSplitFraction)
    /\ current.mPhaseFraction # Null => InsideDay(current.mPhaseFraction)

\* a day on which the sign changes, in a layout that has a phase-start day
C19_Witness ==
  /\ Classified
  /\ current.mSplitFraction # Null
  /\ current.mSignStart # current.mTropicalPhase
  /\ \E k \in 1..Len(seasonCalendar) : seasonCalendar[k].mPhaseFraction # Null

\* C20: endOfDay is the local midnight of the civil day plus exactly 24
\* hours, also on the days on which the clocks change, and the sign at the
\* end of the day, the season and the quarter of a record are the values at
\* that one instant.
C20_MidnightPlus24h ==
  /\ pc # "idle" => endOfDay(targetDate) = midnightOf(targetDate) + DAY_MS
  /\ Classified =>
       /\ endOfDay(current.today) = current.today + DAY_MS
       /\ current.mTropicalPhase = sign(current.today + DAY_MS)
       /\ current.mSeason = season(current.today + DAY_MS)
       /\ current.mLunarPhase = moonPhase(current.today + DAY_MS)

\* a record of a day of 23 or 25 hours: its end of day is not the midnight of
\* the next civil day
C20_Witness ==
  /\ Classified
  /\ current.today + DAY_MS # nextDate(current)

\* the fields the constructor computes from the date
Astronomical(r) ==
  <<r.today, r.mSignStart, r.mTropicalPhase, r.mSeason, r.mLunarPhase,
    r.mSplitFraction, r.mNewMoonWeek>>

\* a step of constructSeason that pushes current and calls current.next()
Pushes ==
  pc = "build" /\ Len(seasonCalendar') = Len(seasonCalendar) + 1

\* C21: the layout pass leaves the constructed fields alone.  The records
\* pushed earlier do not change; the receiver of next() is pushed with the
\* fields it had, its place included, except isPhaseEnd; the new record has
\* the fields its constructor gave it, next() setting only place,
\* isPhaseStart and phaseFraction.
C21_LayoutPassFrame ==
  [][Pushes =>
       /\ SubSeq(seasonCalendar', 1, Len(seasonCalendar)) = seasonCalendar
       /\ [seasonCalendar'[Len(seasonCalendar')] EXCEPT !.mIsPhaseEnd = FALSE]
            = [current EXCEPT !.mIsPhaseEnd = FALSE]
       /\ Astronomical(current') = Astronomical(CalendarDate(nextDate(current)))
     ]_vars

\* next() has made a row break: the last record pushed is the end of its row
C21_Witness ==
  /\ pc = "build"
  /\ Len(seasonCalendar) >= 2
  /\ seasonCalendar[Len(seasonCalendar)].mIsPhaseEnd
  /\ current.mIsPhaseStart
  /\ current.mPhaseFraction # Null

\* call k of handleTap is followed by a call that takes it for a double click
FirstOfDouble(k) == k < Len(clicks.taps) /\ clicks.taps[k + 1].double

\* C22: a click less than 300 ms after another one loads the previous season
\* and the timer of the earlier click never loads the next one; the timer of
\* every click that is not part of a double click does load the next season.
C22_DoubleSupersedes ==
  \A k \in 1..Len(clicks.taps) :
    /\ FirstOfDouble(k) => clicks.taps[k].timer # "loaded"
    /\ (~clicks.taps[k].double /\ ~FirstOfDouble(k))
         => clicks.taps[k].timer # "lapsed"

\* two clicks less than 300 ms apart, both loads run
C22_BothLoads ==
  /\ Len(clicks.taps) = 2
  /\ clicks.taps[2].double
  /\ clicks.taps[1].timer = "loaded"

\* two clicks 300 ms or more apart, the timer of the first loads nothing
C22_LostClick ==
  /\ Len(clicks.taps) = 2
  /\ ~clicks.taps[2].double
  /\ clicks.taps[1].timer = "lapsed"

\* the least and the greatest element of a non-empty set of numbers
Least(S) == CHOOSE x \in S : \A y \in S : x <= y

Greatest(S) == CHOOSE x \in S : \A y \in S : x >= y

\* the values of a getter over the records of the layout
Over(Point(_)) == {Point(seasonCalendar[k]) : k \in 1..Len(seasonCalendar)}

\* C23: after constructSeason the layout is not empty and bounds is the
\* tight bounding box of its records: left is the least x - 1/6, right the
\* greatest x + 0.5, top the least y, which is 0, bottom the greatest y + 0.5.
C23_TightBounds ==
  pc = "done" =>
    /\ Len(seasonCalendar) > 0
    /\ bounds.left = Least(Over(leftPoint))
    /\ bounds.right = Greatest(Over(rightPoint))
    /\ bounds.top = Least(Over(topPoint))
    /\ bounds.top = 0
    /\ bounds.bottom = Greatest(Over(bottomPoint))

\* a second layout, narrower or shorter than the one built before it, with
\* its own bounds
C23_SecondLayout ==
  /\ pc = "done"
  /\ loads >= 2
  /\ Len(seasonCalendar) > 0
  /\ bounds.left = Least(Over(leftPoint))
  /\ bounds.bottom = Greatest(Over(bottomPoint))

\* at most one draw is pending, and dirty holds exactly while one is
Coalesced ==
  /\ screen.frames <= 1
  /\ screen.dirty <=> screen.frames = 1
  /\ screen.marks > 0 => screen.frames = 1

\* C24: under any interleaving of markDirty calls and animation frames at
\* most one draw is pending, dirty is true exactly while one is pending, and
\* every call of markDirty is followed by a draw that runs after it.
C24_RedrawCoalescing ==
  []Coalesced /\ ((screen.marks > 0) ~> (screen.marks = 0))

\* three calls of markDirty wait for one pending draw, after an earlier draw
C24_Witness ==
  /\ screen.marks >= 3
  /\ screen.frames = 1
  /\ screen.painted.layout > 0


====
